---------------------------- MODULE Spec2Model ----------------------------
(***************************************************************************)
(* Model of the merge action of mergify-engine                             *)
(* (mergify_engine/actions/merge/action.py): MergeAction.run and           *)
(* MergeAction.cancel, the merge attempt, the merge error classifier and   *)
(* the smart merge queue they drive.                                       *)
(*                                                                         *)
(* Python values are represented as follows.                               *)
(*   - a check outcome (conclusion, title, summary) is a 3-tuple; the      *)
(*     conclusion None is the string "none"; a function that returns no    *)
(*     outcome at all (Python None) returns NoOutput.                      *)
(*   - config["strict"] is False, True or "smart": the strings "false",    *)
(*     "true", "smart"; config["rebase_fallback"] None is "none".          *)
(*   - a text (error message, check summary, line of a body) is a          *)
(*     sequence of atoms, so that "x in e.message" is a membership test    *)
(*     on the sequence and an f-string is a concatenation.                 *)
(***************************************************************************)
EXTENDS Integers, Sequences, FiniteSets, TLC

\* number of pull requests of the branch
NumPulls == 2
\* number of check names known on a pull request
NumChecks == 2
\* largest number of missing conditions handed to cancel
MaxConds == 2
\* largest number of lines of a pull request body given to
\* _get_commit_message
MaxLines == 5

Pulls == 1..NumPulls

VARIABLES
    config,     \* MergeAction.config, validated by MergeAction.validator
    queue,      \* the merge queue of the branch: sequence of entries
                \* [pull, method, active]
    merged,     \* merged[p]: the pull request is merged on the remote
    pc,         \* pc[p]: position of the invocation running on pull p
    ctxt,       \* ctxt[p]: the context (snapshot) of the invocation
    missing_conditions, \* the argument of run / cancel
    e,          \* e[p]: the HTTPClientSideError caught by _merge, or NoError
    data,       \* data[p]: the payload sent to pulls/<n>/merge, or NoData
    commit_title_and_message, \* what _get_commit_message gave for p
    output,     \* output[p]: what the invocation returned
    calls       \* calls[p]: the calls the invocation made, in order

vars == <<config, queue, merged, pc, ctxt, missing_conditions, e, data,
          commit_title_and_message, output, calls>>

-----------------------------------------------------------------------------
(* Configuration: MergeAction.validator                                    *)

Methods == {"rebase", "merge", "squash"}
RebaseFallbacks == {"merge", "squash", "none"}
Stricts == {"false", "true", "smart"}
StrictMethods == {"rebase", "merge"}
CommitMessageModes == {"default", "title+body"}

validator ==
    [method : Methods, rebase_fallback : RebaseFallbacks, strict : Stricts,
     strict_method : StrictMethods, commit_message : CommitMessageModes]

\* the defaults of the validator
DefaultConfig ==
    [method |-> "merge", rebase_fallback |-> "merge", strict |-> "false",
     strict_method |-> "merge", commit_message |-> "default"]

\* truth value of config["strict"] in "if self.config['strict']"
Truthy(strict) == strict # "false"

-----------------------------------------------------------------------------
(* Outcomes                                                                *)

NoOutput == <<>>
Raised == <<"raised">>

Status(out) == out[1]
Summary(out) == out[2]
Detail(out) == out[3]

IsOutcome(out) == Len(out) = 3

-----------------------------------------------------------------------------
(* The merge queue (mergify_engine.actions.merge.queue)                    *)

InQueue(q, p) == \E i \in 1..Len(q) : q[i].pull = p

QueueMethod(q, p) == q[CHOOSE i \in 1..Len(q) : q[i].pull = p].method

\* add_pull putting a new entry at the head of the queue
add_pull_at_head(q, p, method) ==
    IF InQueue(q, p)
    THEN [i \in 1..Len(q) |->
            IF q[i].pull = p THEN [q[i] EXCEPT !.method = method] ELSE q[i]]
    ELSE <<[pull |-> p, method |-> method, active |-> FALSE]>> \o q

\* add_pull putting one more entry at the tail for an already queued pull
add_pull_again(q, p, method) ==
    Append(q, [pull |-> p, method |-> method, active |-> FALSE])

\* queue.add_pull(ctxt, method): enqueue at the tail; an already queued
\* pull keeps its entry, which takes the new method.  An entry is active
\* while the queue consumer synchronizes it.
add_pull(q, p, method) ==
    IF InQueue(q, p)
    THEN [i \in 1..Len(q) |->
            IF q[i].pull = p THEN [q[i] EXCEPT !.method = method] ELSE q[i]]
    ELSE Append(q, [pull |-> p, method |-> method, active |-> FALSE])

\* remove_pull taking the entry at the head, whatever its pull request
remove_pull_head(q, p) == IF q = <<>> THEN q ELSE Tail(q)

\* queue.remove_pull(ctxt): dequeue; nothing happens for an absent pull
remove_pull(q, p) == SelectSeq(q, LAMBDA en : en.pull # p)

-----------------------------------------------------------------------------
(* Texts.  A line is a sequence of atoms: "#", " ", ":", the phrase        *)
(* "Commit Message" in either case, literal words, and template            *)
(* expressions.                                                            *)

CommitMessagePhrases == {"Commit Message", "commit message"}

\* what jinja2 does with an atom of a template
SyntaxErrorAtoms == {"{%"}               \* TemplateSyntaxError at compile time
UnknownAttributeAtoms == {"{{unknown}}"} \* PullRequestAttributeError
TemplateErrorAtoms == {"{{title.x.y}}"}  \* UndefinedError, a TemplateError
TitleAtoms == {"{{title}}"}              \* resolved by PullRequestContext
CommentAtoms == {"{# note #}"}           \* a comment, rendered to nothing

\* number of leading "#" of a line
RECURSIVE Hashes(_)
Hashes(line) ==
    IF line # <<>> /\ Head(line) = "#" THEN 1 + Hashes(Tail(line)) ELSE 0

\* MARKDOWN_TITLE_RE = ^#+<space>
MARKDOWN_TITLE_RE(line) ==
    LET n == Hashes(line)
    IN  n >= 1 /\ Len(line) > n /\ line[n + 1] = " "

\* MARKDOWN_COMMIT_MESSAGE_RE = ^#+ Commit Message ?:?\s*$ (ignoring case)
MARKDOWN_COMMIT_MESSAGE_RE(line) ==
    LET n == Hashes(line)
        rest == SubSeq(line, n + 3, Len(line))
        colons == {i \in 1..Len(rest) : rest[i] = ":"}
    IN  /\ n >= 1
        /\ Len(line) >= n + 2
        /\ line[n + 1] = " "
        /\ line[n + 2] \in CommitMessagePhrases
        /\ \A i \in 1..Len(rest) : rest[i] \in {" ", ":"}
        /\ Cardinality(colons) <= 1
        /\ \A i \in colons : i <= 2

\* str.strip()
RECURSIVE lstrip(_)
lstrip(line) ==
    IF line # <<>> /\ Head(line) = " " THEN lstrip(Tail(line)) ELSE line

RECURSIVE rstrip(_)
rstrip(line) ==
    IF line # <<>> /\ line[Len(line)] = " "
    THEN rstrip(SubSeq(line, 1, Len(line) - 1))
    ELSE line

strip(line) == rstrip(lstrip(line))

\* dropwhile removing the blank lines at the end of the lines as well
dropwhile_blank_both_ends(lines) ==
    LET kept == {i \in 1..Len(lines) : strip(lines[i]) # <<>>}
    IN  IF kept = {} THEN <<>>
        ELSE SubSeq(lines, CHOOSE i \in kept : \A j \in kept : i <= j,
                           CHOOSE i \in kept : \A j \in kept : i >= j)

\* itertools.dropwhile(lambda x: not x.strip(), lines)
RECURSIVE dropwhile_blank(_)
dropwhile_blank(lines) ==
    IF lines # <<>> /\ strip(Head(lines)) = <<>>
    THEN dropwhile_blank(Tail(lines))
    ELSE lines

\* the loop of _get_commit_message over the lines of the body:
\* the lines collected after the "Commit Message" heading
RECURSIVE collect(_, _, _)
collect(lines, found, acc) ==
    IF lines = <<>> THEN [found |-> found, message_lines |-> acc]
    ELSE IF MARKDOWN_COMMIT_MESSAGE_RE(Head(lines))
         THEN collect(Tail(lines), TRUE, acc)
    ELSE IF found /\ MARKDOWN_TITLE_RE(Head(lines))
         THEN [found |-> found, message_lines |-> acc]
    ELSE IF found
         THEN collect(Tail(lines), found, Append(acc, Head(lines)))
    ELSE collect(Tail(lines), found, acc)

\* the atoms of a template (a sequence of lines), in order
RECURSIVE Atoms(_)
Atoms(lines) == IF lines = <<>> THEN <<>> ELSE Head(lines) \o Atoms(Tail(lines))

FirstIn(seq, S) ==
    IF \E i \in 1..Len(seq) : seq[i] \in S
    THEN CHOOSE i \in 1..Len(seq) :
            seq[i] \in S /\ \A j \in 1..(i - 1) : seq[j] \notin S
    ELSE 0

\* substitution of the attribute references of a line
RECURSIVE Substitute(_, _)
Substitute(line, pull_request) ==
    IF line = <<>> THEN <<>>
    ELSE (IF Head(line) \in TitleAtoms THEN pull_request.title
          ELSE IF Head(line) \in CommentAtoms THEN <<>>
          ELSE <<Head(line)>>) \o Substitute(Tail(line), pull_request)

\* env.from_string(template).render() on a template given as its lines:
\* the error it raises ("" when it raises none) and the rendered lines.
\* jinja2 drops one trailing newline of a template
\* (keep_trailing_newline is off).
RenderError(lines) ==
    LET atoms == Atoms(lines)
        u == FirstIn(atoms, UnknownAttributeAtoms)
        t == FirstIn(atoms, TemplateErrorAtoms)
    IN  IF FirstIn(atoms, SyntaxErrorAtoms) # 0 THEN "TemplateSyntaxError"
        ELSE IF u # 0 /\ (t = 0 \/ u < t) THEN "PullRequestAttributeError"
        ELSE IF t # 0 THEN "TemplateError"
        ELSE ""

\* render() of an environment that keeps the trailing newline
Render_keeping_trailing_newline(lines, pull_request) ==
    [i \in 1..Len(lines) |-> Substitute(lines[i], pull_request)]

Render(lines, pull_request) ==
    LET kept == IF Len(lines) >= 2 /\ lines[Len(lines)] = <<>>
                THEN SubSeq(lines, 1, Len(lines) - 1)
                ELSE lines
    IN  [i \in 1..Len(kept) |-> Substitute(kept[i], pull_request)]

\* "\n".join(lines) is the empty string
EmptyText(lines) == lines = <<>> \/ lines = << <<>> >>

NoMessage == [kind |-> "none", title |-> <<>>, message |-> <<>>]
Raise(error) == [kind |-> error, title |-> <<>>, message |-> <<>>]

\* MergeAction._get_commit_message(pull_request, mode): NoMessage for
\* None, a record of kind "message", or the exception raised
_get_commit_message(pull_request, mode) ==
    IF mode = "title+body"
    THEN [kind |-> "message", title |-> pull_request.title,
          message |-> pull_request.body]
    ELSE IF EmptyText(pull_request.body) THEN NoMessage
    ELSE
      LET c == collect(pull_request.body, FALSE, <<>>)
          message_lines == dropwhile_blank(c.message_lines)
      IN  IF c.found /\ message_lines # <<>>
          THEN LET title == << strip(Head(message_lines)) >>
                   rest == dropwhile_blank(Tail(message_lines))
                   body == [i \in 1..Len(rest) |-> strip(rest[i])]
               IN  IF RenderError(title) # ""
                   THEN Raise(RenderError(title))
                   ELSE IF RenderError(body) # ""
                   THEN Raise(RenderError(body))
                   ELSE [kind |-> "message",
                         title |-> Render(title, pull_request)[1],
                         message |-> Render(body, pull_request)]
          ELSE NoMessage

-----------------------------------------------------------------------------
(* The context of an invocation                                            *)

CheckNames == 1..NumChecks
CheckStates == {"success", "failure", "pending", "null"}

\* ctxt.checks: check name -> state, "absent" for a name without check
NoChecks == [n \in CheckNames |-> "absent"]

\* what helpers.merge_report finds on a pull request that is not merged:
\* "no" for nothing that blocks a merge attempt, otherwise the conclusion
\* of the report
Terminals == {"no", "none", "cancelled", "action_required", "failure"}

PullTitle == <<"Title">>

\* The fields of the snapshot that a handler never reads keep the value
\* they have here; is_behind, pull_base_is_modifiable and the body are
\* fetched when the handler reads them.
NoCtxt ==
    [number |-> 0, state |-> "open", merged |-> FALSE, rebaseable |-> FALSE,
     head_sha |-> 0, title |-> <<>>, body |-> <<>>, terminal |-> "no",
     is_behind |-> FALSE, pull_base_is_modifiable |-> FALSE,
     checks |-> NoChecks]

\* the bodies of the pull requests that run is applied to
RunBodies ==
    { <<>>,
      << <<"#", " ", "Commit Message">>, <<"Fix bug">>, <<>>,
         <<"Details here">> >>,
      << <<"#", " ", "Commit Message">>, <<"Fix", "{%">> >>,
      << <<"#", " ", "Commit Message">>, <<"Fix">>, <<"{{unknown}}">> >>,
      << <<"#", " ", "Commit Message">>, <<"{{title.x.y}}">> >> }

\* the missing conditions: a status condition on one check name, on every
\* check name (a regular expression) or on a name that no check has, and
\* a condition on another attribute
StatusCondition(names) ==
    [attribute_name |-> <<"status-", "success">>, matches |-> names]
LabelCondition == [attribute_name |-> <<"label">>, matches |-> {}]

Conditions ==
    {StatusCondition(names) :
        names \in {{n} : n \in CheckNames} \cup {CheckNames, {}}}
    \cup {LabelCondition}

RECURSIVE SeqsOfLen(_, _)
SeqsOfLen(S, n) ==
    IF n = 0 THEN {<<>>}
    ELSE {Append(sq, x) : sq \in SeqsOfLen(S, n - 1), x \in S}

SeqsUpTo(S, n) == UNION {SeqsOfLen(S, k) : k \in 0..n}

AllChecks(state) == [n \in CheckNames |-> state]

\* the situations cancel is applied to between the runs
CancelCases ==
    { [state |-> "open", conds |-> <<>>, checks |-> NoChecks],
      [state |-> "open", conds |-> <<LabelCondition>>, checks |-> NoChecks],
      [state |-> "open", conds |-> <<StatusCondition(CheckNames)>>,
       checks |-> AllChecks("pending")],
      [state |-> "open", conds |-> <<StatusCondition(CheckNames)>>,
       checks |-> AllChecks("success")],
      [state |-> "open", conds |-> <<StatusCondition(CheckNames)>>,
       checks |-> NoChecks],
      [state |-> "closed", conds |-> <<StatusCondition(CheckNames)>>,
       checks |-> AllChecks("pending")] }

-----------------------------------------------------------------------------
(* helpers and Action attributes                                           *)

\* helpers.merge_report(ctxt, strict)
merge_report(c, strict) ==
    IF c.merged
    THEN <<"success", "The pull request has been merged", <<>> >>
    ELSE IF c.terminal # "no"
    THEN <<c.terminal, "The pull request can't be merged", <<>> >>
    ELSE NoOutput

\* the outcomes of helpers.update_pull_base_branch(ctxt, method)
UpdateResults ==
    { <<"none", "Base branch updates done", <<>> >>,
      <<"failure", "Base branch update has failed", <<>> >> }

\* helpers.get_wait_for_ci_report(ctxt)
get_wait_for_ci_report == <<"none", "Waiting for status checks", <<>> >>

\* Action.cancelled_check_report
cancelled_check_report ==
    <<"cancelled", "The rule doesn't match anymore", <<>> >>

-----------------------------------------------------------------------------
(* The remote merge endpoint                                               *)

HeadModified == "Head branch was modified"
BaseModified == "Base branch was modified"

Messages ==
    { <<HeadModified>>,
      <<BaseModified>>,
      <<BaseModified, HeadModified>>,
      <<"Pull Request is not mergeable">> }

StatusCodes == {405, 409}

\* httpx.HTTPClientSideError
ClientSideErrors == [status_code : StatusCodes, message : Messages]

NoError == [status_code |-> 0, message |-> <<>>]

\* "text in e.message"
Contains(message, text) == \E i \in 1..Len(message) : message[i] = text

NoData == [sha |-> 0]

Call(name, arg) == [name |-> name, arg |-> arg]

-----------------------------------------------------------------------------
(* MergeAction: the decisions of run, cancel and their helpers             *)

\* run_branch returning the report only for a merged pull request
run_branch_success_only(cfg, report, is_behind) ==
    IF report # NoOutput /\ Status(report) = "success" THEN "report"
    ELSE IF Truthy(cfg.strict) /\ is_behind THEN "_sync_with_base_branch"
    ELSE "_merge"

\* run_branch taking the sync path with strict "smart" only
run_branch_smart_only(cfg, report, is_behind) ==
    IF report # NoOutput THEN "report"
    ELSE IF cfg.strict = "smart" /\ is_behind THEN "_sync_with_base_branch"
    ELSE "_merge"

\* run, lines 99-109: where run goes after merge_report
run_branch(cfg, report, is_behind) ==
    IF report # NoOutput THEN "report"
    ELSE IF Truthy(cfg.strict) /\ is_behind THEN "_sync_with_base_branch"
    ELSE "_merge"

\* remove_pull_if_smart testing strict for True instead of "smart"
remove_pull_if_true(cfg, q, p) ==
    IF cfg.strict = "true" THEN remove_pull(q, p) ELSE q

\* "if self.config['strict'] == 'smart': queue.remove_pull(ctxt)"
remove_pull_if_smart(cfg, q, p) ==
    IF cfg.strict = "smart" THEN remove_pull(q, p) ELSE q

\* merge_method without the case of a fallback of None
merge_method_without_none(cfg, c) ==
    IF cfg.method # "rebase" \/ c.rebaseable THEN cfg.method
    ELSE IF cfg.rebase_fallback # "none" THEN cfg.rebase_fallback
    ELSE cfg.method

\* merge_method taking the fallback for every pull request that cannot be
\* rebased, whatever the configured method is
merge_method_fallback_always(cfg, c) ==
    IF c.rebaseable THEN cfg.method
    ELSE IF cfg.rebase_fallback # "none" THEN cfg.rebase_fallback
    ELSE ""

\* _merge, lines 224-233: the method sent, "" when there is none
merge_method(cfg, c) ==
    IF cfg.method # "rebase" \/ c.rebaseable THEN cfg.method
    ELSE IF cfg.rebase_fallback # "none" THEN cfg.rebase_fallback
    ELSE ""

\* merge_data with the commit_title of every derived commit message, empty
\* or not
merge_data_title_always(c, method, cm) ==
    LET base == [sha |-> c.head_sha, merge_method |-> method]
        with_title == IF cm.kind = "message"
                      THEN [commit_title |-> cm.title] ELSE <<>>
        with_message == IF cm.kind = "message" /\ ~EmptyText(cm.message)
                        THEN [commit_message |-> cm.message] ELSE <<>>
    IN  base @@ with_title @@ with_message

\* _merge, lines 235-268: the payload of the merge call
merge_data(c, method, cm) ==
    LET base == [sha |-> c.head_sha, merge_method |-> method]
        with_title == IF cm.kind = "message" /\ cm.title # <<>>
                      THEN [commit_title |-> cm.title] ELSE <<>>
        with_message == IF cm.kind = "message" /\ ~EmptyText(cm.message)
                        THEN [commit_message |-> cm.message] ELSE <<>>
    IN  base @@ with_title @@ with_message

\* the outcome for a commit message that raises, reported as a failure
invalid_commit_message_failure(cm) ==
    <<"failure", "Invalid commit message",
      <<"There is an error in your commit message", cm.kind>> >>

\* _merge, lines 241-258: the outcome for a commit message that raises
invalid_commit_message(cm) ==
    <<"action_required", "Invalid commit message",
      <<"There is an error in your commit message", cm.kind>> >>

Resync == <<"_sync_with_base_branch">>

\* _handle_merge_error testing the status code 405 before the message
\* "Base branch was modified"
_handle_merge_error_405_first(err) ==
    IF Contains(err.message, HeadModified)
    THEN <<"cancelled", "Head branch was modified in the meantime",
           <<"The head branch was modified, the merge action have been cancelled.">> >>
    ELSE IF err.status_code = 405
    THEN <<"none", "Waiting for the Branch Protection to be validated",
           <<"Branch Protection is enabled (detail: ">> \o err.message
              \o <<")">> >>
    ELSE IF Contains(err.message, BaseModified)
    THEN Resync
    ELSE <<"failure", "Mergify failed to merge the pull request",
           <<"GitHub error message: ">> \o err.message >>

\* _handle_merge_error testing the message "Base branch was modified"
\* before "Head branch was modified"
_handle_merge_error_base_first(err) ==
    IF Contains(err.message, BaseModified)
    THEN Resync
    ELSE IF Contains(err.message, HeadModified)
    THEN <<"cancelled", "Head branch was modified in the meantime",
           <<"The head branch was modified, the merge action have been cancelled.">> >>
    ELSE IF err.status_code = 405
    THEN <<"none", "Waiting for the Branch Protection to be validated",
           <<"Branch Protection is enabled (detail: ">> \o err.message
              \o <<")">> >>
    ELSE <<"failure", "Mergify failed to merge the pull request",
           <<"GitHub error message: ">> \o err.message >>

\* _handle_merge_error without the case of the status code 405
_handle_merge_error_without_405(err) ==
    IF Contains(err.message, HeadModified)
    THEN <<"cancelled", "Head branch was modified in the meantime",
           <<"The head branch was modified, the merge action have been cancelled.">> >>
    ELSE IF Contains(err.message, BaseModified)
    THEN Resync
    ELSE <<"failure", "Mergify failed to merge the pull request",
           <<"GitHub error message: ">> \o err.message >>

\* _handle_merge_error taking every status code from 405 on for the branch
\* protection
_handle_merge_error_from_405(err) ==
    IF Contains(err.message, HeadModified)
    THEN <<"cancelled", "Head branch was modified in the meantime",
           <<"The head branch was modified, the merge action have been cancelled.">> >>
    ELSE IF Contains(err.message, BaseModified)
    THEN Resync
    ELSE IF err.status_code >= 405
    THEN <<"none", "Waiting for the Branch Protection to be validated",
           <<"Branch Protection is enabled (detail: ">> \o err.message
              \o <<")">> >>
    ELSE <<"failure", "Mergify failed to merge the pull request",
           <<"GitHub error message: ">> \o err.message >>

\* _handle_merge_error testing the status code 405 before "Base branch was
\* modified"
_handle_merge_error_405_second(err) ==
    IF Contains(err.message, HeadModified)
    THEN <<"cancelled", "Head branch was modified in the meantime",
           <<"The head branch was modified, the merge action have been cancelled.">> >>
    ELSE IF err.status_code = 405
    THEN <<"none", "Waiting for the Branch Protection to be validated",
           <<"Branch Protection is enabled (detail: ">> \o err.message
              \o <<")">> >>
    ELSE IF Contains(err.message, BaseModified)
    THEN Resync
    ELSE <<"failure", "Mergify failed to merge the pull request",
           <<"GitHub error message: ">> \o err.message >>

\* _handle_merge_error(e, ctxt): the outcome, or Resync when it calls
\* _sync_with_base_branch
_handle_merge_error(err) ==
    IF Contains(err.message, HeadModified)
    THEN <<"cancelled", "Head branch was modified in the meantime",
           <<"The head branch was modified, the merge action have been cancelled.">> >>
    ELSE IF Contains(err.message, BaseModified)
    THEN Resync
    ELSE IF err.status_code = 405
    THEN <<"none", "Waiting for the Branch Protection to be validated",
           <<"Branch Protection is enabled (detail: ">> \o err.message
              \o <<")">> >>
    ELSE <<"failure", "Mergify failed to merge the pull request",
           <<"GitHub error message: ">> \o err.message >>

\* _merge, lines 272-282, classifying the error without looking at the
\* refreshed pull request
after_merge_call_classifying(err, c, strict) ==
    IF err = NoError THEN merge_report(c, strict)
    ELSE _handle_merge_error(err)

\* _merge, lines 272-282, deciding on the pull request as it was before the
\* merge call
after_merge_call_stale(err, c, strict) ==
    IF err = NoError
    THEN merge_report([c EXCEPT !.merged = FALSE], strict)
    ELSE _handle_merge_error(err)

\* _merge, lines 272-282, after ctxt.update(): the error (NoError when the
\* call succeeded) is classified only if the refreshed pull request c is
\* not merged, otherwise the report of c is returned
after_merge_call(err, c, strict) ==
    IF err = NoError \/ c.merged THEN merge_report(c, strict)
    ELSE _handle_merge_error(err)

\* _sync_with_base_branch testing strict before pull_base_is_modifiable
_sync_with_base_branch_smart_first(cfg, c, q, update_result) ==
    IF cfg.strict = "smart"
    THEN [output |-> <<"none", "Base branch will be updated soon",
                       <<"The pull request base branch will be updated soon, and then merged.">> >>,
          queue |-> add_pull(q, c.number, cfg.strict_method),
          calls |-> <<Call("add_pull", cfg.strict_method)>>]
    ELSE IF ~c.pull_base_is_modifiable
    THEN [output |-> <<"failure",
                       "Pull request can't be updated with latest base branch changes, owner doesn't allow modification",
                       <<>> >>,
          queue |-> q, calls |-> <<>>]
    ELSE [output |-> update_result, queue |-> q,
          calls |-> <<Call("update_pull_base_branch", cfg.strict_method)>>]

\* _sync_with_base_branch enqueuing with config["method"] instead of
\* config["strict_method"]
_sync_with_base_branch_method(cfg, c, q, update_result) ==
    IF ~c.pull_base_is_modifiable
    THEN [output |-> <<"failure",
                       "Pull request can't be updated with latest base branch changes, owner doesn't allow modification",
                       <<>> >>,
          queue |-> q, calls |-> <<>>]
    ELSE IF cfg.strict = "smart"
    THEN [output |-> <<"none", "Base branch will be updated soon",
                       <<"The pull request base branch will be updated soon, and then merged.">> >>,
          queue |-> add_pull(q, c.number, cfg.method),
          calls |-> <<Call("add_pull", cfg.method)>>]
    ELSE [output |-> update_result, queue |-> q,
          calls |-> <<Call("update_pull_base_branch", cfg.strict_method)>>]

\* _sync_with_base_branch enqueuing whatever strict is
_sync_with_base_branch_queueing(cfg, c, q, update_result) ==
    IF ~c.pull_base_is_modifiable
    THEN [output |-> <<"failure",
                       "Pull request can't be updated with latest base branch changes, owner doesn't allow modification",
                       <<>> >>,
          queue |-> q, calls |-> <<>>]
    ELSE [output |-> <<"none", "Base branch will be updated soon",
                       <<"The pull request base branch will be updated soon, and then merged.">> >>,
          queue |-> add_pull(q, c.number, cfg.strict_method),
          calls |-> <<Call("add_pull", cfg.strict_method)>>]

\* _sync_with_base_branch(ctxt): the outcome, the queue it leaves and the
\* calls it makes; update_result is what update_pull_base_branch returns
_sync_with_base_branch(cfg, c, q, update_result) ==
    IF ~c.pull_base_is_modifiable
    THEN [output |-> <<"failure",
                       "Pull request can't be updated with latest base branch changes, owner doesn't allow modification",
                       <<>> >>,
          queue |-> q, calls |-> <<>>]
    ELSE IF cfg.strict = "smart"
    THEN [output |-> <<"none", "Base branch will be updated soon",
                       <<"The pull request base branch will be updated soon, and then merged.">> >>,
          queue |-> add_pull(q, c.number, cfg.strict_method),
          calls |-> <<Call("add_pull", cfg.strict_method)>>]
    ELSE [output |-> update_result, queue |-> q,
          calls |-> <<Call("update_pull_base_branch", cfg.strict_method)>>]

\* condition.attribute_name.startswith("status-")
IsStatusCondition(cond) == Head(cond.attribute_name) = "status-"

\* cond(**{cond.attribute_name: name})
Matches(cond, name) == name \in cond.matches

\* _required_statuses_in_progress, lines 146-151: the states of the checks
\* that a condition matches
matched_states(c, conds) ==
    {c.checks[name] : name \in {n \in CheckNames :
        /\ c.checks[n] # "absent"
        /\ \E i \in 1..Len(conds) : Matches(conds[i], n)}}

\* _required_statuses_in_progress skipping the conditions that are not
\* status conditions instead of returning False
_required_statuses_in_progress_skipping(c, conds) ==
    LET need_look_at_checks == SelectSeq(conds, IsStatusCondition)
    IN  IF c.state = "closed" THEN FALSE
        ELSE IF need_look_at_checks # <<>>
        THEN IF \A n \in CheckNames : c.checks[n] = "absent" THEN TRUE
             ELSE IF matched_states(c, need_look_at_checks) = {} THEN TRUE
             ELSE \E state \in matched_states(c, need_look_at_checks) :
                     state \in {"pending", "null"}
        ELSE FALSE

\* _required_statuses_in_progress asking every matched check to be pending
_required_statuses_in_progress_all(c, conds) ==
    IF c.state = "closed" THEN FALSE
    ELSE IF \E i \in 1..Len(conds) : ~IsStatusCondition(conds[i]) THEN FALSE
    ELSE IF conds # <<>>
    THEN IF \A n \in CheckNames : c.checks[n] = "absent" THEN TRUE
         ELSE IF matched_states(c, conds) = {} THEN TRUE
         ELSE \A state \in matched_states(c, conds) :
                 state \in {"pending", "null"}
    ELSE FALSE

\* _required_statuses_in_progress without the test of the pull request
\* being closed
_required_statuses_in_progress_open(c, conds) ==
    IF \E i \in 1..Len(conds) : ~IsStatusCondition(conds[i]) THEN FALSE
    ELSE IF conds # <<>>
    THEN IF \A n \in CheckNames : c.checks[n] = "absent" THEN TRUE
         ELSE IF matched_states(c, conds) = {} THEN TRUE
         ELSE \E state \in matched_states(c, conds) :
                 state \in {"pending", "null"}
    ELSE FALSE

\* _required_statuses_in_progress(ctxt, missing_conditions)
_required_statuses_in_progress(c, conds) ==
    IF c.state = "closed" THEN FALSE
    ELSE IF \E i \in 1..Len(conds) : ~IsStatusCondition(conds[i]) THEN FALSE
    ELSE IF conds # <<>>
    THEN IF \A n \in CheckNames : c.checks[n] = "absent" THEN TRUE
         ELSE IF matched_states(c, conds) = {} THEN TRUE
         ELSE \E state \in matched_states(c, conds) :
                 state \in {"pending", "null"}
    ELSE FALSE

\* cancel without the removal of the pull request from the queue
cancel_result_without_remove(cfg, c, conds, q) ==
    IF Truthy(cfg.strict) /\ _required_statuses_in_progress(c, conds)
    THEN [output |-> get_wait_for_ci_report, queue |-> q,
          calls |-> <<Call("get_wait_for_ci_report", "")>>]
    ELSE [output |-> cancelled_check_report, queue |-> q, calls |-> <<>>]

\* cancel removing the pull request from the queue before it looks at the
\* checks
cancel_result_removing_first(cfg, c, conds, q) ==
    IF Truthy(cfg.strict) /\ _required_statuses_in_progress(c, conds)
    THEN [output |-> get_wait_for_ci_report,
          queue |-> remove_pull_if_smart(cfg, q, c.number),
          calls |-> <<Call("get_wait_for_ci_report", "")>>]
    ELSE [output |-> cancelled_check_report,
          queue |-> remove_pull_if_smart(cfg, q, c.number),
          calls |-> IF cfg.strict = "smart"
                    THEN <<Call("remove_pull", "")>> ELSE <<>>]

\* cancel(ctxt, missing_conditions): the outcome, the queue it leaves and
\* the calls it makes
cancel_result(cfg, c, conds, q) ==
    IF Truthy(cfg.strict) /\ _required_statuses_in_progress(c, conds)
    THEN [output |-> get_wait_for_ci_report, queue |-> q,
          calls |-> <<Call("get_wait_for_ci_report", "")>>]
    ELSE [output |-> cancelled_check_report,
          queue |-> remove_pull_if_smart(cfg, q, c.number),
          calls |-> IF cfg.strict = "smart"
                    THEN <<Call("remove_pull", "")>> ELSE <<>>]

-----------------------------------------------------------------------------
(* The state machine.  An invocation of run or cancel on pull p goes       *)
(* through pc[p]: "idle", then for run "_sync_with_base_branch" or         *)
(* "_merge", "update", "resync", "finally", and "done" when it has         *)
(* returned; the caller then takes the outcome and the invocation is       *)
(* over.  The engine handles one pull request at a time: an invocation     *)
(* starts when no other is under way.                                      *)

NoneRunning == \A q \in Pulls : pc[q] = "idle"

Init ==
    /\ config \in validator
    /\ queue = <<>>
    /\ merged = [p \in Pulls |-> FALSE]
    /\ pc = [p \in Pulls |-> "idle"]
    /\ ctxt = [p \in Pulls |-> NoCtxt]
    /\ missing_conditions = [p \in Pulls |-> <<>>]
    /\ e = [p \in Pulls |-> NoError]
    /\ data = [p \in Pulls |-> NoData]
    /\ output = [p \in Pulls |-> NoOutput]
    /\ calls = [p \in Pulls |-> <<>>]
    /\ commit_title_and_message = [p \in Pulls |-> NoMessage]

\* what an invocation may find: the values of the snapshot read by run
\* (pushes is the number of pushes that the head branch has had, which
\* makes the head sha), the bodies, and the client side errors of the merge
\* endpoint
AllInputs ==
    [rebaseable |-> BOOLEAN, terminal |-> Terminals, is_behind |-> BOOLEAN,
     pushes |-> {0}, body |-> RunBodies, error |-> ClientSideErrors]

\* ctxt.pull["head"]["sha"] of pull p after the given number of pushes
head_sha(p, pushes) == p + NumPulls * pushes

\* MergeAction.run(ctxt, missing_conditions), lines 96-109, on a snapshot
\* taken from inputs: merge_report, then the choice between the report,
\* the sync and the merge attempt
run_on(p, inputs) ==
    /\ pc[p] = "idle"
    /\ \E rebaseable \in inputs.rebaseable, terminal \in inputs.terminal,
          is_behind \in inputs.is_behind, pushes \in inputs.pushes :
        LET c == [NoCtxt EXCEPT !.number = p, !.merged = merged[p],
                                !.rebaseable = rebaseable,
                                !.head_sha = head_sha(p, pushes),
                                !.title = PullTitle,
                                !.terminal = IF merged[p] THEN "no" ELSE terminal,
                                !.is_behind = is_behind]
            report == merge_report(c, config.strict)
            branch == run_branch(config, report, is_behind)
        IN  /\ merged[p] => terminal = "no" /\ ~rebaseable
            /\ ctxt' = [ctxt EXCEPT ![p] = c]
            /\ IF branch = "report"
               THEN /\ queue' = remove_pull_if_smart(config, queue, p)
                    /\ output' = [output EXCEPT ![p] = report]
                    /\ calls' = [calls EXCEPT ![p] =
                          <<Call("merge_report", "")>> \o
                          (IF config.strict = "smart"
                           THEN <<Call("remove_pull", "")>> ELSE <<>>)]
                    /\ pc' = [pc EXCEPT ![p] = "done"]
               ELSE /\ queue' = queue
                    /\ output' = [output EXCEPT ![p] = NoOutput]
                    /\ calls' = [calls EXCEPT ![p] = <<Call("merge_report", "")>>]
                    /\ pc' = [pc EXCEPT ![p] = branch]
    /\ missing_conditions' = [missing_conditions EXCEPT ![p] = <<>>]
    /\ e' = [e EXCEPT ![p] = NoError]
    /\ data' = [data EXCEPT ![p] = NoData]
    /\ commit_title_and_message' =
          [commit_title_and_message EXCEPT ![p] = NoMessage]
    /\ UNCHANGED <<config, merged>>

\* is_behind is computed when it is read, that is when strict is set and
\* merge_report has no outcome: the snapshots of run differ in it only then
run(p) ==
    /\ NoneRunning
    /\ run_on(p, AllInputs)
    /\ (pc'[p] = "done" \/ ~Truthy(config.strict)) => ~ctxt'[p].is_behind

\* after_sync going back to the merge attempt after a resync
after_sync_retrying(from) == IF from = "resync" THEN "_merge" ELSE "done"

\* where _sync_with_base_branch returns to: run returns its outcome (line
\* 106), and so does _merge (lines 277, 305), through the finally of run
after_sync(from) == IF from = "resync" THEN "finally" ELSE "done"

\* MergeAction._sync_with_base_branch(ctxt), called by run (line 106) or by
\* _handle_merge_error (line 305), which returns into the finally of run
sync_with_base_branch(p) ==
    /\ pc[p] \in {"_sync_with_base_branch", "resync"}
    /\ \E modifiable \in BOOLEAN, update_result \in UpdateResults :
        LET c == [ctxt[p] EXCEPT !.pull_base_is_modifiable = modifiable]
            r == _sync_with_base_branch(config, c, queue, update_result)
        IN  \* the update happens only when the base is modifiable and
            \* strict is not smart
            /\ (~modifiable \/ config.strict = "smart") =>
                   update_result = CHOOSE u \in UpdateResults : TRUE
            /\ ctxt' = [ctxt EXCEPT ![p] = c]
            /\ queue' = r.queue
            /\ output' = [output EXCEPT ![p] = r.output]
            /\ calls' = [calls EXCEPT ![p] =
                  @ \o <<Call("_sync_with_base_branch", "")>> \o r.calls]
    /\ pc' = [pc EXCEPT ![p] = after_sync(pc[p])]
    /\ UNCHANGED <<config, merged, missing_conditions, e, data,
                   commit_title_and_message>>

\* MergeAction._merge(ctxt), lines 223-271: the method, the commit message
\* and the call of the merge endpoint
_merge_on(p, inputs) ==
    /\ pc[p] = "_merge"
    /\ \E body \in inputs.body :
        LET c == [ctxt[p] EXCEPT !.body = body]
            method == merge_method(config, c)
            cm == _get_commit_message(c, config.commit_message)
            entered == Append(calls[p], Call("_merge", ""))
        IN  /\ method = "" => body = <<>>
            /\ ctxt' = [ctxt EXCEPT ![p] = c]
            /\ IF method = ""
               THEN /\ output' = [output EXCEPT ![p] =
                          <<"action_required",
                            "Automatic rebasing is not possible, manual intervention required",
                            <<>> >>]
                    /\ calls' = [calls EXCEPT ![p] = entered]
                    /\ pc' = [pc EXCEPT ![p] = "finally"]
                    /\ UNCHANGED <<merged, e, data, commit_title_and_message>>
               ELSE IF cm.kind \notin {"none", "message"}
               THEN /\ output' = [output EXCEPT ![p] =
                          invalid_commit_message(cm)]
                    /\ calls' = [calls EXCEPT ![p] = entered]
                    /\ pc' = [pc EXCEPT ![p] = "finally"]
                    /\ commit_title_and_message' =
                          [commit_title_and_message EXCEPT ![p] = cm]
                    /\ UNCHANGED <<merged, e, data>>
               ELSE /\ data' = [data EXCEPT ![p] = merge_data(c, method, cm)]
                    /\ commit_title_and_message' =
                          [commit_title_and_message EXCEPT ![p] = cm]
                    /\ calls' = [calls EXCEPT ![p] =
                          Append(entered, Call("put_merge", method))]
                    /\ \/ \* the pull request is merged
                          /\ ~merged[p]
                          /\ merged' = [merged EXCEPT ![p] = TRUE]
                          /\ pc' = [pc EXCEPT ![p] = "update"]
                          /\ UNCHANGED <<e, output>>
                       \/ \* httpx.HTTPClientSideError
                          /\ \E err \in inputs.error :
                                e' = [e EXCEPT ![p] = err]
                          /\ pc' = [pc EXCEPT ![p] = "update"]
                          /\ UNCHANGED <<merged, output>>
                       \/ \* any other exception leaves run through its
                          \* finally
                          /\ output' = [output EXCEPT ![p] = Raised]
                          /\ pc' = [pc EXCEPT ![p] = "finally"]
                          /\ UNCHANGED <<merged, e>>
    /\ UNCHANGED <<config, queue, missing_conditions>>

_merge(p) == pc[p] = "_merge" /\ _merge_on(p, AllInputs)

\* _merge, lines 272-282: ctxt.update(), then the report of the refreshed
\* pull request or the classification of the error
update(p) ==
    /\ pc[p] = "update"
    /\ LET c == [ctxt[p] EXCEPT !.merged = merged[p]]
           result == after_merge_call(e[p], c, config.strict)
       IN  /\ ctxt' = [ctxt EXCEPT ![p] = c]
           /\ calls' = [calls EXCEPT ![p] = Append(@, Call("update", ""))]
           /\ IF result = Resync
              THEN /\ pc' = [pc EXCEPT ![p] = "resync"]
                   /\ UNCHANGED output
              ELSE /\ output' = [output EXCEPT ![p] = result]
                   /\ pc' = [pc EXCEPT ![p] = "finally"]
    /\ UNCHANGED <<config, queue, merged, missing_conditions, e, data,
                   commit_title_and_message>>

\* run, lines 110-112: the finally of the merge attempt
finally(p) ==
    /\ pc[p] = "finally"
    /\ queue' = remove_pull_if_smart(config, queue, p)
    /\ calls' = [calls EXCEPT ![p] =
          @ \o (IF config.strict = "smart"
                THEN <<Call("remove_pull", "")>> ELSE <<>>)]
    /\ pc' = [pc EXCEPT ![p] = "done"]
    /\ UNCHANGED <<config, merged, ctxt, missing_conditions, e, data,
                   commit_title_and_message, output>>

\* MergeAction.cancel(ctxt, missing_conditions) on a pull request in the
\* given state, with the given checks
cancel_on(p, state, conds, checks) ==
    /\ pc[p] = "idle"
    /\ LET c == [NoCtxt EXCEPT !.number = p, !.merged = merged[p],
                               !.state = state, !.head_sha = p,
                               !.title = PullTitle, !.checks = checks]
           r == cancel_result(config, c, conds, queue)
       IN  /\ merged[p] => state = "closed"
           /\ ctxt' = [ctxt EXCEPT ![p] = c]
           /\ missing_conditions' = [missing_conditions EXCEPT ![p] = conds]
           /\ output' = [output EXCEPT ![p] = r.output]
           /\ calls' = [calls EXCEPT ![p] = r.calls]
           /\ queue' = r.queue
    /\ pc' = [pc EXCEPT ![p] = "cancelled"]
    /\ UNCHANGED <<config, merged, e, data, commit_title_and_message>>

cancel(p, state, conds, checks) ==
    NoneRunning /\ cancel_on(p, state, conds, checks)

\* the caller has taken the outcome of the invocation
return(p) ==
    /\ pc[p] \in {"done", "cancelled", "message"}
    /\ pc' = [pc EXCEPT ![p] = "idle"]
    /\ ctxt' = [ctxt EXCEPT ![p] = NoCtxt]
    /\ missing_conditions' = [missing_conditions EXCEPT ![p] = <<>>]
    /\ e' = [e EXCEPT ![p] = NoError]
    /\ data' = [data EXCEPT ![p] = NoData]
    /\ output' = [output EXCEPT ![p] = NoOutput]
    /\ calls' = [calls EXCEPT ![p] = <<>>]
    /\ commit_title_and_message' =
          [commit_title_and_message EXCEPT ![p] = NoMessage]
    /\ UNCHANGED <<config, queue, merged>>

\* somebody else merges the pull request
ThirdPartyMerge(p) ==
    /\ ~merged[p]
    /\ merged' = [merged EXCEPT ![p] = TRUE]
    /\ UNCHANGED <<config, queue, pc, ctxt, missing_conditions, e, data,
                   commit_title_and_message, output, calls>>

\* cancel on one of the situations of CancelCases
cancel_case(p) ==
    /\ NoneRunning
    /\ \E case \in CancelCases :
          cancel(p, case.state, case.conds, case.checks)

Next ==
    \E p \in Pulls :
        \/ run(p)
        \/ cancel_case(p)
        \/ sync_with_base_branch(p)
        \/ _merge(p)
        \/ update(p)
        \/ finally(p)
        \/ return(p)
        \/ ThirdPartyMerge(p)

Spec == Init /\ [][Next]_vars

-----------------------------------------------------------------------------
(* cancel on every pull request state, list of missing conditions and      *)
(* checks within the bounds, under the three values of strict, with the    *)
(* queue empty or holding a pull request enqueued by an earlier run        *)

InitCancel ==
    /\ config \in {c \in validator :
          \A f \in DOMAIN c \ {"strict"} : c[f] = DefaultConfig[f]}
    /\ queue \in {<<>>} \cup
          {add_pull(<<>>, p, DefaultConfig.strict_method) : p \in Pulls}
    /\ merged = [p \in Pulls |-> FALSE]
    /\ pc = [p \in Pulls |-> "idle"]
    /\ ctxt = [p \in Pulls |-> NoCtxt]
    /\ missing_conditions = [p \in Pulls |-> <<>>]
    /\ e = [p \in Pulls |-> NoError]
    /\ data = [p \in Pulls |-> NoData]
    /\ output = [p \in Pulls |-> NoOutput]
    /\ calls = [p \in Pulls |-> <<>>]
    /\ commit_title_and_message = [p \in Pulls |-> NoMessage]

cancel_any(p) ==
    /\ NoneRunning
    /\ \E state \in {"open", "closed"},
          conds \in SeqsUpTo(Conditions, MaxConds),
          checks \in [CheckNames -> CheckStates \cup {"absent"}] :
           cancel(p, state, conds, checks)

NextCancel == \E p \in Pulls : cancel_any(p) \/ return(p)

SpecCancel == InitCancel /\ [][NextCancel]_vars

-----------------------------------------------------------------------------
(* The invocations on one pull request, on every snapshot: the pull        *)
(* request is behind its base branch or not whatever strict and the report *)
(* of merge_report are.                                                    *)

run_alone(p) == pc[p] = "idle" /\ run_on(p, AllInputs)

NextOne ==
    \E p \in {1} :
        \/ run_alone(p)
        \/ cancel_case(p)
        \/ sync_with_base_branch(p)
        \/ _merge(p)
        \/ update(p)
        \/ finally(p)
        \/ return(p)
        \/ ThirdPartyMerge(p)

SpecOne == Init /\ [][NextOne]_vars

\* an invocation that is under way goes on: each of its steps is a
\* sequential statement of run, which no other invocation can disable
RunStep(p) ==
    sync_with_base_branch(p) \/ _merge(p) \/ update(p) \/ finally(p)

SpecOneFair == SpecOne /\ \A p \in {1} : WF_vars(RunStep(p))

-----------------------------------------------------------------------------
(* The merge attempts on one pull request whose head branch has had a push *)
(* or none, and whose body may give a commit message with a title that is  *)
(* rendered to nothing                                                     *)

PayloadBodies ==
    RunBodies \cup
    { << <<"#", " ", "Commit Message">>, <<"{# note #}">>,
         <<"Details here">> >> }

PayloadInputs ==
    [rebaseable |-> BOOLEAN, terminal |-> {"no"}, is_behind |-> {FALSE},
     pushes |-> {0, 1}, body |-> PayloadBodies, error |-> ClientSideErrors]

run_for_payload(p) == pc[p] = "idle" /\ run_on(p, PayloadInputs)

_merge_for_payload(p) == pc[p] = "_merge" /\ _merge_on(p, PayloadInputs)

NextPayload ==
    \E p \in {1} :
        \/ run_for_payload(p)
        \/ sync_with_base_branch(p)
        \/ _merge_for_payload(p)
        \/ update(p)
        \/ finally(p)
        \/ return(p)

SpecPayload == Init /\ [][NextPayload]_vars

-----------------------------------------------------------------------------
(* Concurrent invocations.  Workers run the action on different pull       *)
(* requests of the branch at the same time: an invocation starts on a pull *)
(* request that has none under way, and the steps of the invocations       *)
(* interleave; add_pull and remove_pull are one step each.  The queue      *)
(* consumer synchronizes the entry at the head of the queue and removes it *)
(* when it is through.  strict is "smart"; the snapshots are few, so that  *)
(* the interleavings are many.                                             *)

FewInputs ==
    [rebaseable |-> {TRUE}, terminal |-> {"no"}, is_behind |-> BOOLEAN,
     pushes |-> {0}, body |-> {<<>>},
     error |-> {[status_code |-> 409, message |-> <<BaseModified>>]}]

InitSmart ==
    /\ config \in {c \in validator :
          /\ c.strict = "smart"
          /\ \A f \in DOMAIN c \ {"strict", "strict_method"} :
                c[f] = DefaultConfig[f]}
    /\ queue = <<>>
    /\ merged = [p \in Pulls |-> FALSE]
    /\ pc = [p \in Pulls |-> "idle"]
    /\ ctxt = [p \in Pulls |-> NoCtxt]
    /\ missing_conditions = [p \in Pulls |-> <<>>]
    /\ e = [p \in Pulls |-> NoError]
    /\ data = [p \in Pulls |-> NoData]
    /\ output = [p \in Pulls |-> NoOutput]
    /\ calls = [p \in Pulls |-> <<>>]
    /\ commit_title_and_message = [p \in Pulls |-> NoMessage]

run_concurrently(p) == pc[p] = "idle" /\ run_on(p, FewInputs)

_merge_concurrently(p) == pc[p] = "_merge" /\ _merge_on(p, FewInputs)

cancel_concurrently(p) ==
    /\ pc[p] = "idle"
    /\ \E case \in CancelCases :
          cancel_on(p, case.state, case.conds, case.checks)

\* the queue consumer starts the synchronization of the entry at the head
consumer_start ==
    /\ queue # <<>>
    /\ ~Head(queue).active
    /\ queue' = [queue EXCEPT ![1].active = TRUE]
    /\ UNCHANGED <<config, merged, pc, ctxt, missing_conditions, e, data,
                   commit_title_and_message, output, calls>>

\* the queue consumer is through with an entry (the base branch is updated,
\* or cannot be) and removes it
consumer_done ==
    /\ \E i \in 1..Len(queue) :
          /\ queue[i].active
          /\ queue' = remove_pull(queue, queue[i].pull)
    /\ UNCHANGED <<config, merged, pc, ctxt, missing_conditions, e, data,
                   commit_title_and_message, output, calls>>

NextConcurrent ==
    \/ \E p \in Pulls :
          \/ run_concurrently(p)
          \/ cancel_concurrently(p)
          \/ sync_with_base_branch(p)
          \/ _merge_concurrently(p)
          \/ update(p)
          \/ finally(p)
          \/ return(p)
    \/ consumer_start
    \/ consumer_done

SpecConcurrent == InitSmart /\ [][NextConcurrent]_vars

\* one invocation at a time, with strict "smart"
SpecSmart == InitSmart /\ [][Next]_vars

-----------------------------------------------------------------------------
(* _get_commit_message on every body of up to MaxLines lines taken from    *)
(* MessageLines and on the body of ExampleBody, under both values of       *)
(* commit_message                                                          *)

CommitMessageHeading == <<"#", " ", "Commit Message">>

\* lines of a body: empty, of spaces, literal text without and with spaces
\* around it, "Commit Message" headings, another heading, and a template
MessageLines ==
    { <<>>,
      <<" ">>,
      <<"Fix bug">>,
      <<" ", "Details here", " ">>,
      CommitMessageHeading,
      <<"#", "#", " ", "commit message", ":">>,
      <<"#", " ", "Another Heading">>,
      <<"{{title}}">> }

ExampleBody ==
    << <<"intro">>, CommitMessageHeading, <<"Fix bug">>, <<>>,
       <<"Details here">>, <<"#", " ", "Another Heading">>, <<"ignored">> >>

Bodies ==
    UNION {[1..n -> MessageLines] : n \in 0..MaxLines} \cup {ExampleBody}

InitMsg ==
    /\ config \in {c \in validator :
          \A f \in DOMAIN c \ {"commit_message"} : c[f] = DefaultConfig[f]}
    /\ queue = <<>>
    /\ merged = [p \in Pulls |-> FALSE]
    /\ pc = [p \in Pulls |-> "idle"]
    /\ ctxt = [p \in Pulls |-> NoCtxt]
    /\ missing_conditions = [p \in Pulls |-> <<>>]
    /\ e = [p \in Pulls |-> NoError]
    /\ data = [p \in Pulls |-> NoData]
    /\ output = [p \in Pulls |-> NoOutput]
    /\ calls = [p \in Pulls |-> <<>>]
    /\ commit_title_and_message = [p \in Pulls |-> NoMessage]

\* self._get_commit_message(ctxt.pull_request, self.config["commit_message"])
get_commit_message(p) ==
    /\ NoneRunning
    /\ \E body \in Bodies :
          LET c == [NoCtxt EXCEPT !.number = p, !.head_sha = p,
                                  !.title = PullTitle, !.body = body]
          IN  /\ ctxt' = [ctxt EXCEPT ![p] = c]
              /\ commit_title_and_message' =
                    [commit_title_and_message EXCEPT ![p] =
                        _get_commit_message(c, config.commit_message)]
    /\ pc' = [pc EXCEPT ![p] = "message"]
    /\ UNCHANGED <<config, queue, merged, missing_conditions, e, data,
                   output, calls>>

\* _get_commit_message depends on the pull request given and on nothing
\* else: it is applied to one pull request
NextMsg == \E p \in {1} : get_commit_message(p) \/ return(p)

SpecMsg == InitMsg /\ [][NextMsg]_vars

-----------------------------------------------------------------------------
(* Properties                                                              *)

\* run on pull p has returned (or raised)
RunReturned(p) == pc[p] = "done"
\* cancel on pull p has returned
CancelReturned(p) == pc[p] = "cancelled"

Called(p, name) == \E i \in 1..Len(calls[p]) : calls[p][i].name = name

HasStatus(out, statuses) == IsOutcome(out) /\ Status(out) \in statuses

RebaseNotPossible(p) ==
    /\ config.method = "rebase"
    /\ ~ctxt[p].rebaseable
    /\ config.rebase_fallback = "none"

\* C1 as stated: with method rebase, a pull request that is not rebaseable
\* and no rebase fallback, run returns action_required, whatever strict,
\* is_behind and merge_report are, and never calls the merge endpoint.
C1_Original ==
    \A p \in Pulls :
        RunReturned(p) /\ RebaseNotPossible(p) =>
            /\ HasStatus(output[p], {"action_required"})
            /\ ~Called(p, "put_merge")

\* C1 amended: with method rebase, a pull request that is not rebaseable
\* and no rebase fallback, run never calls the merge endpoint, and it
\* returns action_required when merge_report has no outcome and run does
\* not take the sync path (strict falsy or the pull request not behind).
C1_RebaseNotPossible ==
    \A p \in Pulls :
        RunReturned(p) /\ RebaseNotPossible(p) =>
            /\ ~Called(p, "put_merge")
            /\ ( /\ ~ctxt[p].merged
                 /\ ctxt[p].terminal = "no"
                 /\ ~(Truthy(config.strict) /\ ctxt[p].is_behind)
                 => /\ HasStatus(output[p], {"action_required"})
                    /\ Summary(output[p]) =
                          "Automatic rebasing is not possible, manual intervention required" )

C1_Witness ==
    \E p \in Pulls :
        /\ RunReturned(p) /\ RebaseNotPossible(p)
        /\ Called(p, "_merge")
        /\ HasStatus(output[p], {"action_required"})

\* C2: with strict "smart", when run returns an outcome of status success
\* or failure, the pull request has no entry in the merge queue.
C2_NoLeak ==
    \A p \in Pulls :
        /\ RunReturned(p)
        /\ config.strict = "smart"
        /\ HasStatus(output[p], {"success", "failure"})
        => ~InQueue(queue, p)

AllStatusConditions(conds) ==
    \A i \in 1..Len(conds) : Head(conds[i].attribute_name) = "status-"

\* the check names that have a check matched by one of the conditions
MatchedChecks(p) ==
    {n \in CheckNames :
        /\ ctxt[p].checks[n] # "absent"
        /\ \E i \in 1..Len(missing_conditions[p]) :
              n \in missing_conditions[p][i].matches}

\* C3: cancel with strict set on an open pull request returns the
\* wait-for-CI outcome when the missing conditions are status conditions
\* only (at least one) whose matched checks are all pending, and the
\* cancellation outcome when one missing condition is not a status
\* condition.
C3_CancelWaitsOrCancels ==
    \A p \in Pulls :
        CancelReturned(p) /\ Truthy(config.strict) /\ ctxt[p].state = "open" =>
            /\ ( /\ missing_conditions[p] # <<>>
                 /\ AllStatusConditions(missing_conditions[p])
                 /\ \A n \in MatchedChecks(p) : ctxt[p].checks[n] = "pending"
                 => output[p] = get_wait_for_ci_report )
            /\ ( ~AllStatusConditions(missing_conditions[p])
                 => output[p] = cancelled_check_report )

C3_Witness ==
    \E p \in Pulls :
        /\ CancelReturned(p) /\ Truthy(config.strict) /\ ctxt[p].state = "open"
        /\ missing_conditions[p] # <<>>
        /\ AllStatusConditions(missing_conditions[p])
        /\ MatchedChecks(p) = CheckNames
        /\ \A n \in CheckNames : ctxt[p].checks[n] = "pending"
        /\ output[p] = get_wait_for_ci_report

\* the merge call of the run on p failed with a client side error and the
\* refreshed pull request is not merged
MergeFailed(p) ==
    /\ RunReturned(p)
    /\ e[p] # NoError
    /\ Called(p, "update")
    /\ ~ctxt[p].merged

\* C4 as stated: when the merge call fails with a message containing
\* "Base branch was modified" and the refreshed pull request is not merged,
\* run enters _sync_with_base_branch and its outcome is not a failure.
C4_Original ==
    \A p \in Pulls :
        MergeFailed(p) /\ Contains(e[p].message, BaseModified) =>
            /\ Called(p, "_sync_with_base_branch")
            /\ ~HasStatus(output[p], {"failure"})

\* C4 amended: when the merge call fails with a message containing "Base
\* branch was modified" and not "Head branch was modified", and the
\* refreshed pull request is not merged, run enters _sync_with_base_branch
\* and returns its outcome; the status is failure only when the base branch
\* is not modifiable or the base branch update that was performed reports a
\* failure, never from the error classifier.
C4_BaseModifiedResyncs ==
    \A p \in Pulls :
        /\ MergeFailed(p)
        /\ Contains(e[p].message, BaseModified)
        /\ ~Contains(e[p].message, HeadModified)
        => /\ Called(p, "_sync_with_base_branch")
           /\ IsOutcome(output[p])
           /\ Summary(output[p]) # "Mergify failed to merge the pull request"
           /\ ( Status(output[p]) = "failure" =>
                   \/ ~ctxt[p].pull_base_is_modifiable
                   \/ Called(p, "update_pull_base_branch") )
           /\ ( ctxt[p].pull_base_is_modifiable /\ config.strict = "smart" =>
                   Status(output[p]) = "none" )

C4_Witness ==
    \E p \in Pulls :
        /\ MergeFailed(p)
        /\ Contains(e[p].message, BaseModified)
        /\ e[p].status_code = 405
        /\ Called(p, "_sync_with_base_branch")
        /\ HasStatus(output[p], {"none"})

\* C5 as stated: when _sync_with_base_branch is entered for a pull request
\* whose base is not modifiable, the outcome is action_required and there
\* is no enqueue and no base branch update.
C5_Original ==
    \A p \in Pulls :
        /\ RunReturned(p)
        /\ Called(p, "_sync_with_base_branch")
        /\ ~ctxt[p].pull_base_is_modifiable
        => /\ HasStatus(output[p], {"action_required"})
           /\ ~Called(p, "add_pull")
           /\ ~Called(p, "update_pull_base_branch")

\* C5 amended: when _sync_with_base_branch is entered for a pull request
\* whose base is not modifiable, the outcome has status failure (the pull
\* request can't be updated), and there is no enqueue and no base branch
\* update.
C5_NotModifiableFails ==
    \A p \in Pulls :
        /\ RunReturned(p)
        /\ Called(p, "_sync_with_base_branch")
        /\ ~ctxt[p].pull_base_is_modifiable
        => /\ HasStatus(output[p], {"failure"})
           /\ ~Called(p, "add_pull")
           /\ ~Called(p, "update_pull_base_branch")

C5_Witness ==
    \E p \in Pulls :
        /\ RunReturned(p)
        /\ Called(p, "_sync_with_base_branch")
        /\ ~ctxt[p].pull_base_is_modifiable
        /\ config.strict = "smart"
        /\ HasStatus(output[p], {"failure"})

\* the run on p found no report, a pull request behind its base, and a
\* base that can be modified
BehindAndModifiable(p) ==
    /\ RunReturned(p)
    /\ ~ctxt[p].merged /\ ctxt[p].terminal = "no"
    /\ ctxt[p].is_behind
    /\ ctxt[p].pull_base_is_modifiable

\* C6: with strict "smart", a pull request behind its base, a modifiable
\* base and no report, run enqueues the pull request with
\* config.strict_method, returns the status none with the summary "Base
\* branch will be updated soon", and makes no base branch update and no
\* merge call.
C6_SmartEnqueues ==
    \A p \in Pulls :
        BehindAndModifiable(p) /\ config.strict = "smart" =>
            /\ InQueue(queue, p)
            /\ QueueMethod(queue, p) = config.strict_method
            /\ HasStatus(output[p], {"none"})
            /\ Summary(output[p]) = "Base branch will be updated soon"
            /\ ~Called(p, "update_pull_base_branch")
            /\ ~Called(p, "put_merge")

C6_Witness ==
    \E p \in Pulls :
        /\ BehindAndModifiable(p) /\ config.strict = "smart"
        /\ config.strict_method = "rebase"
        /\ config.method = "squash"
        /\ InQueue(queue, p)
        /\ Len(queue) = NumPulls

\* C7: with strict "smart", a run that takes the merge attempt ends with
\* the removal of the pull request from the queue, made after the attempt,
\* for every result of the attempt, an exception of the merge call
\* included.
C7_MergeAttemptDequeues ==
    \A p \in Pulls :
        RunReturned(p) /\ config.strict = "smart" /\ Called(p, "_merge") =>
            /\ ~InQueue(queue, p)
            /\ calls[p][Len(calls[p])].name = "remove_pull"

C7_Witness ==
    \E p \in Pulls :
        /\ RunReturned(p) /\ config.strict = "smart"
        /\ Called(p, "put_merge")
        /\ output[p] = Raised
        /\ ~InQueue(queue, p)
        /\ queue # <<>>

\* the step that starts a run on p
RunStarts(p) == pc[p] = "idle" /\ pc'[p] \notin {"idle", "cancelled"}

\* C8: when merge_report has an outcome at the start of run, run returns
\* this outcome without a merge call and without the sync path, and with
\* strict "smart" the pull request is removed from the queue.
C8_ReportReturned ==
    [][\A p \in Pulls :
        RunStarts(p) /\ merge_report(ctxt'[p], config.strict) # NoOutput =>
            /\ pc'[p] = "done"
            /\ output'[p] = merge_report(ctxt'[p], config.strict)
            /\ \A i \in 1..Len(calls'[p]) :
                  calls'[p][i].name \in {"merge_report", "remove_pull"}
            /\ (config.strict = "smart" => ~InQueue(queue', p))
            /\ (config.strict # "smart" => queue' = queue)]_vars

C8_Witness ==
    \E p \in Pulls :
        /\ RunReturned(p) /\ config.strict = "smart"
        /\ ~Called(p, "_merge") /\ ~Called(p, "_sync_with_base_branch")
        /\ HasStatus(output[p], {"failure"})
        /\ Called(p, "remove_pull")
        /\ queue # <<>>

\* C9: with strict "smart", a cancel that returns the cancellation outcome
\* leaves the pull request without entry in the queue.
C9_CancelDequeues ==
    \A p \in Pulls :
        /\ CancelReturned(p)
        /\ config.strict = "smart"
        /\ output[p] = cancelled_check_report
        => ~InQueue(queue, p)

C9_Witness ==
    \E p \in Pulls :
        /\ CancelReturned(p)
        /\ config.strict = "smart"
        /\ output[p] = cancelled_check_report
        /\ Called(p, "remove_pull")
        /\ queue # <<>>

\* C10 as stated: cancel returns the wait-for-CI outcome only if strict is
\* set, every missing condition is a status condition and every matched
\* check is pending (or without state).
C10_Original ==
    \A p \in Pulls :
        CancelReturned(p) /\ output[p] = get_wait_for_ci_report =>
            /\ Truthy(config.strict)
            /\ AllStatusConditions(missing_conditions[p])
            /\ \A n \in MatchedChecks(p) :
                  ctxt[p].checks[n] \in {"pending", "null"}

\* C10 amended: cancel returns the wait-for-CI outcome exactly when strict
\* is set, the pull request is open, there is a missing condition, every
\* missing condition is a status condition, and either no check is matched
\* or at least one matched check is pending (or without state); a matched
\* check in another state beside a pending one does not lead to the
\* cancellation.
C10_WaitsIffSomePending ==
    \A p \in Pulls :
        CancelReturned(p) =>
            ( output[p] = get_wait_for_ci_report <=>
                /\ Truthy(config.strict)
                /\ ctxt[p].state = "open"
                /\ missing_conditions[p] # <<>>
                /\ AllStatusConditions(missing_conditions[p])
                /\ \/ MatchedChecks(p) = {}
                   \/ \E n \in MatchedChecks(p) :
                         ctxt[p].checks[n] \in {"pending", "null"} )

C10_Witness ==
    \E p \in Pulls :
        /\ CancelReturned(p)
        /\ output[p] = get_wait_for_ci_report
        /\ \E n, m \in MatchedChecks(p) :
              /\ ctxt[p].checks[n] = "pending"
              /\ ctxt[p].checks[m] \in {"success", "failure"}

\* C11: cancel on a closed pull request returns the cancellation outcome,
\* never the wait-for-CI outcome, whatever the missing conditions and the
\* checks are (all matched checks pending included), and with strict
\* "smart" it removes the pull request from the queue.
C11_ClosedCancels ==
    \A p \in Pulls :
        CancelReturned(p) /\ ctxt[p].state = "closed" =>
            /\ output[p] = cancelled_check_report
            /\ ~Called(p, "get_wait_for_ci_report")
            /\ config.strict = "smart" =>
                  Called(p, "remove_pull") /\ ~InQueue(queue, p)

C11_Witness ==
    \E p \in Pulls :
        /\ CancelReturned(p) /\ ctxt[p].state = "closed"
        /\ config.strict = "smart"
        /\ missing_conditions[p] # <<>>
        /\ AllStatusConditions(missing_conditions[p])
        /\ MatchedChecks(p) = CheckNames
        /\ \A n \in CheckNames : ctxt[p].checks[n] = "pending"
        /\ output[p] = cancelled_check_report
        /\ Called(p, "remove_pull")
        /\ queue = <<>>

\* C12: the merge_method of every merge call is the configured method,
\* except that for the method rebase on a pull request that cannot be
\* rebased it is rebase_fallback (merge or squash); with another method,
\* rebaseable and rebase_fallback have no influence.
C12_MethodSent ==
    \A p \in Pulls :
        Called(p, "put_merge") =>
            /\ data[p].merge_method \in {"merge", "rebase", "squash"}
            /\ IF config.method = "rebase" /\ ~ctxt[p].rebaseable
               THEN data[p].merge_method = config.rebase_fallback
               ELSE data[p].merge_method = config.method
            /\ \E i \in 1..Len(calls[p]) :
                  calls[p][i] = Call("put_merge", data[p].merge_method)

C12_Witness ==
    \E p \in Pulls :
        /\ Called(p, "put_merge")
        /\ config.method = "rebase" /\ ~ctxt[p].rebaseable
        /\ config.rebase_fallback = "squash"
        /\ data[p].merge_method = "squash"

\* C13: when the merge call fails with a client side error and the
\* refreshed pull request is merged, the error is not classified: for every
\* status code and message run returns the report of the refreshed pull
\* request, never a cancelled or failure outcome of the classifier, and
\* does not go to the base branch sync.
C13_MergedNotClassified ==
    \A p \in Pulls :
        /\ RunReturned(p)
        /\ e[p] # NoError
        /\ Called(p, "update")
        /\ ctxt[p].merged
        => /\ output[p] = merge_report(ctxt[p], config.strict)
           /\ HasStatus(output[p], {"success"})
           /\ ~Called(p, "_sync_with_base_branch")

C13_Witness ==
    \E p \in Pulls :
        /\ RunReturned(p)
        /\ e[p] = [status_code |-> 409, message |-> <<HeadModified>>]
        /\ Called(p, "update")
        /\ ctxt[p].merged
        /\ HasStatus(output[p], {"success"})

\* C14: when the merge call fails with a message containing "Head branch
\* was modified" and the refreshed pull request is not merged, run returns
\* the status cancelled, and neither enqueues the pull request nor updates
\* its base branch.
C14_HeadModifiedCancels ==
    \A p \in Pulls :
        MergeFailed(p) /\ Contains(e[p].message, HeadModified) =>
            /\ HasStatus(output[p], {"cancelled"})
            /\ Summary(output[p]) = "Head branch was modified in the meantime"
            /\ ~Called(p, "_sync_with_base_branch")
            /\ ~Called(p, "add_pull")
            /\ ~Called(p, "update_pull_base_branch")

C14_Witness ==
    \E p \in Pulls :
        /\ MergeFailed(p)
        /\ e[p].message = <<BaseModified, HeadModified>>
        /\ HasStatus(output[p], {"cancelled"})
        /\ ~Called(p, "add_pull")

\* the error of the merge call of p is of none of the classes that
\* _handle_merge_error knows
Unclassified(err) ==
    /\ ~Contains(err.message, HeadModified)
    /\ ~Contains(err.message, BaseModified)
    /\ err.status_code # 405

\* C15: when the merge call fails with the status code 405 and a message
\* containing neither "Head branch was modified" nor "Base branch was
\* modified", and the refreshed pull request is not merged, run returns the
\* status none with the summary "Waiting for the Branch Protection to be
\* validated", never failure or cancelled.
C15_BranchProtectionWaits ==
    \A p \in Pulls :
        /\ MergeFailed(p)
        /\ e[p].status_code = 405
        /\ ~Contains(e[p].message, HeadModified)
        /\ ~Contains(e[p].message, BaseModified)
        => /\ HasStatus(output[p], {"none"})
           /\ Summary(output[p]) =
                 "Waiting for the Branch Protection to be validated"
           /\ ~Called(p, "_sync_with_base_branch")

C15_Witness ==
    \E p \in Pulls :
        /\ MergeFailed(p)
        /\ e[p].status_code = 405
        /\ ~Contains(e[p].message, HeadModified)
        /\ ~Contains(e[p].message, BaseModified)
        /\ HasStatus(output[p], {"none"})
        /\ Summary(output[p]) =
              "Waiting for the Branch Protection to be validated"

\* C16: when the merge call fails with an error of none of the three known
\* classes and the refreshed pull request is not merged, run returns the
\* status failure with a detail that holds the remote message unchanged;
\* the classifier itself gives the status failure for no other error, and
\* a run that returns failure after a failed merge call without entering
\* the base branch sync had such an error.
C16_UnclassifiedFails ==
    \A p \in Pulls :
        MergeFailed(p) =>
            /\ \A err \in ClientSideErrors :
                  ( /\ _handle_merge_error(err) # Resync
                    /\ Status(_handle_merge_error(err)) = "failure" )
                  <=> Unclassified(err)
            /\ Unclassified(e[p]) =>
                  /\ HasStatus(output[p], {"failure"})
                  /\ Summary(output[p]) =
                        "Mergify failed to merge the pull request"
                  /\ SubSeq(Detail(output[p]), 2, Len(Detail(output[p])))
                        = e[p].message
            /\ HasStatus(output[p], {"failure"})
                  /\ ~Called(p, "_sync_with_base_branch")
                  => Unclassified(e[p])

C16_Witness ==
    \E p \in Pulls :
        /\ MergeFailed(p)
        /\ Unclassified(e[p])
        /\ HasStatus(output[p], {"failure"})
        /\ Detail(output[p]) = <<"GitHub error message: ">> \o e[p].message

\* the exceptions of _get_commit_message that _merge catches
CommitMessageErrors ==
    {"TemplateSyntaxError", "TemplateError", "PullRequestAttributeError"}

\* C17: when the derivation of the commit message raises a template syntax
\* error, another template error or an unknown attribute error, _merge
\* returns action_required with the summary "Invalid commit message" and
\* the invocation makes no merge call.
C17_InvalidCommitMessage ==
    \A p \in Pulls :
        /\ RunReturned(p)
        /\ Called(p, "_merge")
        /\ merge_method(config, ctxt[p]) # ""
        /\ _get_commit_message(ctxt[p], config.commit_message).kind
              \in CommitMessageErrors
        => /\ commit_title_and_message[p].kind \in CommitMessageErrors
           /\ HasStatus(output[p], {"action_required"})
           /\ Summary(output[p]) = "Invalid commit message"
           /\ ~Called(p, "put_merge")
           /\ ~Called(p, "update")
           /\ data[p] = NoData

C17_Witness ==
    \E p \in Pulls :
        /\ RunReturned(p)
        /\ Called(p, "_merge")
        /\ commit_title_and_message[p].kind = "PullRequestAttributeError"
        /\ HasStatus(output[p], {"action_required"})
        /\ Summary(output[p]) = "Invalid commit message"
        /\ ~Called(p, "put_merge")

\* _get_commit_message has returned for the body of ctxt[p]
MessageReturned(p) == pc[p] = "message"

Blank(line) == strip(line) = <<>>

\* index of the first line of lines that satisfies Test, 0 when none does
FirstLine(lines, Test(_)) ==
    IF \E i \in 1..Len(lines) : Test(lines[i])
    THEN CHOOSE i \in 1..Len(lines) :
            Test(lines[i]) /\ \A j \in 1..(i - 1) : ~Test(lines[j])
    ELSE 0

\* the lines of body after line h
After(body, h) == SubSeq(body, h + 1, Len(body))

\* the lines of lines before its first heading line
UpToHeading(lines) ==
    LET n == FirstLine(lines, MARKDOWN_TITLE_RE)
    IN  IF n = 0 THEN lines ELSE SubSeq(lines, 1, n - 1)

\* the lines of lines from its first non-blank line on
FromFirstNonBlank(lines) ==
    LET r == FirstLine(lines, LAMBDA line : ~Blank(line))
    IN  IF r = 0 THEN <<>> ELSE After(lines, r - 1)

\* number of blank lines at the end of lines
RECURSIVE TrailingBlanks(_)
TrailingBlanks(lines) ==
    IF lines # <<>> /\ Blank(lines[Len(lines)])
    THEN 1 + TrailingBlanks(SubSeq(lines, 1, Len(lines) - 1))
    ELSE 0

\* the lines as the commit message shows them: trimmed and rendered
Shown(lines, pull_request) ==
    Render([i \in 1..Len(lines) |-> strip(lines[i])], pull_request)

\* C18: in the default mode a body without "Commit Message" heading, or an
\* empty body, gives no commit message; on a body with the heading the
\* title is the first non-blank line after the heading and the body is the
\* lines that follow it up to the next heading line, without the blank
\* lines between title and body.
C18_TitleAndBody ==
    \A p \in Pulls :
        MessageReturned(p) /\ config.commit_message = "default" =>
            LET h == FirstLine(ctxt[p].body, MARKDOWN_COMMIT_MESSAGE_RE)
                block == UpToHeading(After(ctxt[p].body, h))
                t == FirstLine(block, LAMBDA line : ~Blank(line))
                cm == commit_title_and_message[p]
            IN  IF h = 0 THEN cm = NoMessage
                ELSE t # 0 /\ cm.kind \notin CommitMessageErrors =>
                       /\ cm.kind = "message"
                       /\ <<cm.title>> = Shown(<<block[t]>>, ctxt[p])
                       /\ cm.message =
                             Shown(FromFirstNonBlank(After(block, t)), ctxt[p])

\* the block that the loop of _get_commit_message collected for the body
\* of ctxt[p]
Collected(p) == collect(ctxt[p].body, FALSE, <<>>)

Literal(line) ==
    \A i \in 1..Len(line) :
        line[i] \notin TitleAtoms \cup CommentAtoms \cup SyntaxErrorAtoms
                       \cup UnknownAttributeAtoms \cup TemplateErrorAtoms

\* the line has neither leading nor trailing whitespace
Trimmed(line) == line = <<>> \/ (Head(line) # " " /\ line[Len(line)] # " ")

\* C20 as stated: a template whose title line and body lines hold literal
\* text only is rendered to that text unchanged, whatever whitespace the
\* lines start or end with.
C20_Original ==
    \A p \in Pulls :
        /\ MessageReturned(p)
        /\ config.commit_message = "default"
        /\ Collected(p).found
        => LET cm == commit_title_and_message[p]
               block == FromFirstNonBlank(Collected(p).message_lines)
               rest == FromFirstNonBlank(After(block, 1))
           IN  block # <<>> /\ (\A i \in 1..Len(block) : Literal(block[i])) =>
                  /\ cm.kind = "message"
                  /\ cm.title = block[1]
                  /\ cm.message = rest

\* C20 amended: a template whose title line and body lines hold literal
\* text only is rendered to that text with every line stripped of its
\* leading and trailing whitespace and without one blank line at the end of
\* the body; it is unchanged when no line starts or ends with whitespace
\* and the body does not end with a blank line.
C20_LiteralStripped ==
    \A p \in Pulls :
        /\ MessageReturned(p)
        /\ config.commit_message = "default"
        /\ Collected(p).found
        => LET cm == commit_title_and_message[p]
               block == FromFirstNonBlank(Collected(p).message_lines)
               rest == FromFirstNonBlank(After(block, 1))
               n == IF TrailingBlanks(rest) > 0 THEN Len(rest) - 1 ELSE Len(rest)
           IN  block # <<>> /\ (\A i \in 1..Len(block) : Literal(block[i])) =>
                  /\ cm.kind = "message"
                  /\ cm.title = strip(block[1])
                  /\ cm.message = [i \in 1..n |-> strip(rest[i])]
                  /\ ( /\ \A i \in 1..Len(block) : Trimmed(block[i])
                       /\ TrailingBlanks(rest) = 0 )
                     => cm.title = block[1] /\ cm.message = rest

C20_Witness ==
    \E p \in Pulls :
        /\ MessageReturned(p)
        /\ config.commit_message = "default"
        /\ ctxt[p].body = << CommitMessageHeading,
                            <<" ", "Details here", " ">>, <<"Fix bug">> >>
        /\ commit_title_and_message[p] =
              [kind |-> "message", title |-> <<"Details here">>,
               message |-> << <<"Fix bug">> >>]

-----------------------------------------------------------------------------
(* The merge queue under concurrent invocations                            *)

\* the step makes the first remove_pull of the invocation on pull p
Dequeues(p) == ~Called(p, "remove_pull") /\ Called(p, "remove_pull")'

\* C21: remove_pull is idempotent: on every queue and every pull request,
\* removing twice leaves the queue that removing once leaves, and removing
\* a pull request that is not queued leaves the queue as it is and raises
\* nothing: with strict "smart", run and cancel remove a pull request that
\* was never queued and return.
C21_DequeueIdempotent ==
    /\ [](\A p \in Pulls :
            /\ remove_pull(remove_pull(queue, p), p) = remove_pull(queue, p)
            /\ ~InQueue(remove_pull(queue, p), p)
            /\ ~InQueue(queue, p) => remove_pull(queue, p) = queue)
    /\ [][\A p \in Pulls :
            Dequeues(p) /\ ~InQueue(queue, p) =>
                /\ queue' = queue
                /\ pc'[p] \in {"done", "cancelled"}
                /\ output'[p] = Raised => output[p] = Raised]_vars

\* run on pull 1 has merged and cancel on pull 2 has cancelled, each with a
\* remove_pull, and neither pull request was queued
C21_Witness ==
    /\ config.strict = "smart"
    /\ RunReturned(1) /\ Called(1, "put_merge") /\ Called(1, "remove_pull")
    /\ ~Called(1, "add_pull")
    /\ CancelReturned(2) /\ Called(2, "remove_pull")
    /\ queue = <<>>

\* the place of pull p in queue q
Position(q, p) == CHOOSE i \in 1..Len(q) : q[i].pull = p

ActiveEntries(q) == {i \in 1..Len(q) : q[i].active}

\* C22: whatever the interleaving of the run and cancel invocations on the
\* pull requests of the branch, the queue has at most one active entry and
\* at most one entry for a pull request, and it is first in, first out: a
\* new entry is put at the tail, the entries that stay keep their order,
\* and the entry that becomes active is the one at the head.
C22_OneActiveFifo ==
    /\ [](/\ Cardinality(ActiveEntries(queue)) <= 1
          /\ \A i, j \in 1..Len(queue) :
                queue[i].pull = queue[j].pull => i = j)
    /\ [][/\ \A a, b \in Pulls :
                /\ InQueue(queue, a) /\ InQueue(queue, b)
                /\ InQueue(queue', a) /\ InQueue(queue', b)
                /\ Position(queue, a) < Position(queue, b)
                => Position(queue', a) < Position(queue', b)
          /\ \A a \in Pulls :
                ~InQueue(queue, a) /\ InQueue(queue', a) =>
                    /\ Position(queue', a) = Len(queue')
                    /\ ~queue'[Len(queue')].active
          /\ \A a \in Pulls :
                /\ InQueue(queue, a) /\ InQueue(queue', a)
                /\ ~queue[Position(queue, a)].active
                /\ queue'[Position(queue', a)].active
                => Position(queue, a) = 1]_vars

\* run on pull 1 has queued it behind the active entry of pull 2, on which
\* cancel waits for the checks
C22_Witness ==
    /\ Len(queue) = 2
    /\ queue[1].pull = 2 /\ queue[1].active
    /\ queue[2].pull = 1
    /\ RunReturned(1) /\ Called(1, "add_pull")
    /\ CancelReturned(2) /\ ~Called(2, "remove_pull")

-----------------------------------------------------------------------------
(* Repeated invocations                                                     *)

\* the queue calls of the invocation on pull p, in their order
QueueCalls(p) ==
    SelectSeq(calls[p], LAMBDA c : c.name \in {"add_pull", "remove_pull"})

\* the queue calls ops made once more for pull p on queue q
RECURSIVE Replay(_, _, _)
Replay(q, p, ops) ==
    IF ops = <<>> THEN q
    ELSE Replay(IF Head(ops).name = "add_pull"
                THEN add_pull(q, p, Head(ops).arg)
                ELSE remove_pull(q, p),
                p, Tail(ops))

EntriesOf(q, p) == {i \in 1..Len(q) : q[i].pull = p}

\* C23: with strict "smart", a second run (or cancel) on the same snapshot
\* and remote state makes the queue calls of the first once more, and they
\* leave the queue the first invocation left; a pull request has at most
\* one entry, and after run has queued it the entry is one and carries
\* strict_method, also when strict_method has changed since the entry was
\* queued.
C23_RepeatedInvocation ==
    \A p \in Pulls :
        config.strict = "smart" /\ (RunReturned(p) \/ CancelReturned(p)) =>
            /\ Replay(queue, p, QueueCalls(p)) = queue
            /\ Cardinality(EntriesOf(queue, p)) <= 1
            /\ ( /\ QueueCalls(p) # <<>>
                 /\ QueueCalls(p)[Len(QueueCalls(p))].name = "add_pull" ) =>
                  /\ Cardinality(EntriesOf(queue, p)) = 1
                  /\ QueueMethod(queue, p) = config.strict_method
                  /\ \A m \in StrictMethods :
                        LET again == add_pull(queue, p, m)
                        IN  /\ Cardinality(EntriesOf(again, p)) = 1
                            /\ QueueMethod(again, p) = m
                            /\ Position(again, p) = Position(queue, p)
                            /\ Len(again) = Len(queue)

\* the second run on pull 2, queued before pull 1, has queued it once more
C23_Witness ==
    /\ config.strict = "smart"
    /\ RunReturned(2) /\ Called(2, "add_pull")
    /\ Len(queue) = 2
    /\ queue[1].pull = 2 /\ queue[2].pull = 1

\* C24: with strict "smart", when run returns the outcome "Base branch
\* will be updated soon", the pull request has an entry in the queue,
\* whether the sync was entered from run or from the classification of a
\* failed merge call.
C24_QueuedWhenSoon ==
    \A p \in Pulls :
        /\ config.strict = "smart"
        /\ RunReturned(p)
        /\ IsOutcome(output[p])
        /\ Summary(output[p]) = "Base branch will be updated soon"
        => InQueue(queue, p)

-----------------------------------------------------------------------------
(* The paths of one invocation                                              *)

\* an invocation of run on pull p is under way or has returned
InRun(p) == pc[p] \notin {"idle", "cancelled", "message"}

\* C25: in an invocation of run with strict true or "smart" on a snapshot
\* that shows the pull request behind its base branch, the merge endpoint
\* is not called: run returns the outcome of merge_report or goes through
\* _sync_with_base_branch.
C25_BehindNeverMerges ==
    \A p \in Pulls :
        InRun(p) /\ Truthy(config.strict) /\ ctxt[p].is_behind =>
            /\ ~Called(p, "put_merge")
            /\ ~Called(p, "_merge")
            /\ pc[p] \in {"_sync_with_base_branch", "done"}
            /\ RunReturned(p) =>
                  LET report == merge_report(ctxt[p], config.strict)
                  IN  IF report # NoOutput
                      THEN /\ output[p] = report
                           /\ ~Called(p, "_sync_with_base_branch")
                      ELSE Called(p, "_sync_with_base_branch")

\* run with strict true has updated the pull request that was behind
C25_Witness ==
    /\ RunReturned(1)
    /\ config.strict = "true"
    /\ ctxt[1].is_behind
    /\ Called(1, "update_pull_base_branch")
    /\ ~Called(1, "put_merge")

\* the step is an invocation of cancel on pull p
Cancels(p) == pc[p] = "idle" /\ pc'[p] = "cancelled"

\* C26: an invocation of cancel that returns the wait-for-CI outcome leaves
\* the queue as it is (the entry of the pull request keeps its method and
\* its place) and makes no merge call and no base branch update; no
\* invocation of cancel enqueues or calls the merge endpoint: the queue it
\* leaves is the queue it found, with or without the pull request.
C26_CancelFrame ==
    [][\A p \in Pulls :
          Cancels(p) =>
              /\ output'[p] = get_wait_for_ci_report =>
                    /\ queue' = queue
                    /\ \A i \in 1..Len(calls'[p]) :
                          calls'[p][i].name = "get_wait_for_ci_report"
              /\ \A i \in 1..Len(calls'[p]) :
                    calls'[p][i].name \in
                        {"get_wait_for_ci_report", "remove_pull"}
              /\ queue' \in {queue, remove_pull(queue, p)}
              /\ merged' = merged]_vars

\* cancel on pull 2, queued behind pull 1, waits for the checks
C26_Witness ==
    /\ CancelReturned(2)
    /\ output[2] = get_wait_for_ci_report
    /\ Len(queue) = 2
    /\ queue[1].pull = 1 /\ queue[2].pull = 2
    /\ queue[2].method = config.strict_method

\* C27: with strict true, a pull request behind its base branch, a
\* modifiable base and no outcome of merge_report, run calls
\* update_pull_base_branch once, with strict_method, and returns what it
\* returns; when strict is not "smart", no invocation of run or cancel
\* calls add_pull or remove_pull, and the queue stays as it was.
C27_SynchronousUpdate ==
    \A p \in Pulls :
        /\ ( /\ config.strict = "true"
             /\ BehindAndModifiable(p) ) =>
               /\ calls[p] = << Call("merge_report", ""),
                                Call("_sync_with_base_branch", ""),
                                Call("update_pull_base_branch",
                                     config.strict_method) >>
               /\ output[p] \in UpdateResults
        /\ config.strict # "smart" =>
               /\ ~Called(p, "add_pull")
               /\ ~Called(p, "remove_pull")
               /\ queue = <<>>

\* run with strict true and the strict_method "rebase" has updated the
\* pull request, and the update has failed
C27_Witness ==
    /\ config.strict = "true"
    /\ config.strict_method = "rebase"
    /\ BehindAndModifiable(1)
    /\ Called(1, "update_pull_base_branch")
    /\ HasStatus(output[1], {"failure"})

\* the calls named name in the invocation on pull p
CallsOf(p, name) == {i \in 1..Len(calls[p]) : calls[p][i].name = name}

\* the merge call on pull p has returned, with success or a client side
\* error
MergeCallReturned(p) ==
    /\ InRun(p)
    /\ Called(p, "put_merge")
    /\ output[p] # Raised

\* C28: a call of the merge endpoint that returns, with success or with a
\* client side error, is followed by one ctxt.update(), and by one only,
\* before anything is decided: until then run has no outcome, the step
\* that follows the call is the update, which reads the merged flag of the
\* pull request as it is now, and what run returns is the report of the
\* refreshed pull request or the classification of the error for a pull
\* request that the refresh shows unmerged.
C28_RefreshAfterMergeCall ==
    /\ [](\A p \in Pulls :
            MergeCallReturned(p) =>
                /\ Cardinality(CallsOf(p, "put_merge")) = 1
                /\ Cardinality(CallsOf(p, "update")) <= 1
                /\ pc[p] = "update" =>
                      /\ ~Called(p, "update")
                      /\ output[p] = NoOutput
                      /\ calls[p][Len(calls[p])].name = "put_merge"
                /\ pc[p] # "update" =>
                      /\ \E i \in CallsOf(p, "put_merge") :
                            /\ i < Len(calls[p])
                            /\ calls[p][i + 1].name = "update"
                      /\ e[p] = NoError => ctxt[p].merged
                      /\ RunReturned(p) /\ ctxt[p].merged =>
                            output[p] = merge_report(ctxt[p], config.strict)
                      /\ RunReturned(p) /\ ~ctxt[p].merged =>
                            \/ output[p] = _handle_merge_error(e[p])
                            \/ /\ _handle_merge_error(e[p]) = Resync
                               /\ Called(p, "_sync_with_base_branch"))
    /\ [][\A p \in Pulls :
            pc[p] = "update" /\ pc'[p] # "update" =>
                /\ calls'[p] = Append(calls[p], Call("update", ""))
                /\ ctxt'[p].merged = merged[p]]_vars

\* the merge call has succeeded on a pull request that the snapshot of run
\* showed unmerged, and run returns the report of the merged pull request
C28_Witness ==
    /\ RunReturned(1)
    /\ Called(1, "put_merge")
    /\ e[1] = NoError
    /\ calls[1][Len(calls[1])].name = "update"
    /\ ctxt[1].merged
    /\ HasStatus(output[1], {"success"})

\* C29: _handle_merge_error looks at "Head branch was modified" first, at
\* "Base branch was modified" second and at the status code 405 third: a
\* failed merge call whose message holds both phrases cancels, one with the
\* status code 405 and "Base branch was modified" goes through
\* _sync_with_base_branch and does not wait for the branch protection, and
\* with one of the two phrases in the message the classification is the
\* same under every status code.
C29_ClassifierOrder ==
    \A p \in Pulls :
        MergeFailed(p) =>
            /\ Contains(e[p].message, HeadModified) =>
                  /\ output[p] = _handle_merge_error(e[p])
                  /\ HasStatus(output[p], {"cancelled"})
                  /\ ~Called(p, "_sync_with_base_branch")
            /\ ( /\ Contains(e[p].message, BaseModified)
                 /\ ~Contains(e[p].message, HeadModified) ) =>
                  /\ _handle_merge_error(e[p]) = Resync
                  /\ Called(p, "_sync_with_base_branch")
                  /\ Summary(output[p]) #
                        "Waiting for the Branch Protection to be validated"
            /\ ( \/ Contains(e[p].message, BaseModified)
                 \/ Contains(e[p].message, HeadModified) ) =>
                  \A code \in StatusCodes :
                      _handle_merge_error([e[p] EXCEPT !.status_code = code])
                          = _handle_merge_error(e[p])

\* the merge call has failed with the status code 405 and "Base branch was
\* modified", and run has gone through _sync_with_base_branch
C29_Witness ==
    /\ MergeFailed(1)
    /\ e[1] = [status_code |-> 405, message |-> <<BaseModified>>]
    /\ Called(1, "_sync_with_base_branch")
    /\ calls[1][Len(calls[1])].name = "update_pull_base_branch"

\* the calls of the invocation on pull p that come after its first entry
\* into _sync_with_base_branch
AfterSync(p) ==
    LET first == CHOOSE i \in CallsOf(p, "_sync_with_base_branch") :
                    \A j \in CallsOf(p, "_sync_with_base_branch") : i <= j
    IN  {i \in 1..Len(calls[p]) : i > first}

\* how many steps the invocation on pull p has before it at most
StepsLeft(position) ==
    CASE position = "_merge" -> 4
      [] position = "update" -> 3
      [] position = "resync" -> 2
      [] position \in {"_sync_with_base_branch", "finally"} -> 1
      [] OTHER -> 0

\* C30: an invocation of run makes at most one call of the merge endpoint
\* and enters _sync_with_base_branch at most once, no merge attempt follows
\* the sync, every step of the invocation brings it nearer to its return,
\* and the invocation returns.
C30_RunTerminates ==
    /\ [](\A p \in Pulls :
            InRun(p) =>
                /\ Cardinality(CallsOf(p, "put_merge")) <= 1
                /\ Cardinality(CallsOf(p, "_merge")) <= 1
                /\ Cardinality(CallsOf(p, "_sync_with_base_branch")) <= 1
                /\ Called(p, "_sync_with_base_branch") =>
                      \A i \in AfterSync(p) :
                          calls[p][i].name \notin {"_merge", "put_merge"}
                /\ Len(calls[p]) <= 7)
    /\ [][\A p \in Pulls :
            InRun(p) /\ ~RunReturned(p) /\ pc'[p] # pc[p] =>
                StepsLeft(pc'[p]) < StepsLeft(pc[p])]_vars
    /\ \A p \in Pulls : (InRun(p) ~> RunReturned(p))

\* run has made one merge call, then entered _sync_with_base_branch, and
\* has returned
C30_Witness ==
    /\ RunReturned(1)
    /\ Cardinality(CallsOf(1, "put_merge")) = 1
    /\ Cardinality(CallsOf(1, "_sync_with_base_branch")) = 1
    /\ \E i \in CallsOf(1, "put_merge") :
          \E j \in CallsOf(1, "_sync_with_base_branch") : i < j

-----------------------------------------------------------------------------
(* The payload of the merge call                                            *)

\* C31: the payload of every merge call of _merge has the head sha of the
\* snapshot of the invocation, which no ctxt.update() has refreshed before
\* the call, and the method that _merge has resolved; it has commit_title
\* exactly when a commit message is derived and its title is not empty, and
\* commit_message exactly when one is derived and its body is not empty;
\* it has nothing else.
C31_MergePayload ==
    \A p \in Pulls :
        InRun(p) /\ Called(p, "put_merge") =>
            LET cm == _get_commit_message(ctxt[p], config.commit_message)
                sent == CHOOSE i \in CallsOf(p, "put_merge") : TRUE
            IN  /\ data[p].sha = ctxt[p].head_sha
                /\ \A i \in CallsOf(p, "update") : i > sent
                /\ data[p].merge_method =
                      (IF config.method # "rebase" \/ ctxt[p].rebaseable
                       THEN config.method ELSE config.rebase_fallback)
                /\ calls[p][sent].arg = data[p].merge_method
                /\ "commit_title" \in DOMAIN data[p]
                      <=> cm.kind = "message" /\ cm.title # <<>>
                /\ "commit_message" \in DOMAIN data[p]
                      <=> cm.kind = "message" /\ cm.message \notin
                                                    {<<>>, << <<>> >>}
                /\ "commit_title" \in DOMAIN data[p] =>
                      data[p].commit_title = cm.title
                /\ "commit_message" \in DOMAIN data[p] =>
                      data[p].commit_message = cm.message
                /\ DOMAIN data[p] \subseteq
                      {"sha", "merge_method", "commit_title", "commit_message"}

\* the merge call on a pull request whose head branch has had a push, with
\* a commit message whose title is rendered to nothing: the payload has
\* the body and no title
C31_Witness ==
    /\ InRun(1) /\ Called(1, "put_merge")
    /\ ctxt[1].head_sha = head_sha(1, 1)
    /\ data[1].sha = head_sha(1, 1)
    /\ commit_title_and_message[1].kind = "message"
    /\ commit_title_and_message[1].title = <<>>
    /\ DOMAIN data[1] = {"sha", "merge_method", "commit_message"}

-----------------------------------------------------------------------------
(* The end of the commit message block                                      *)

\* C32: in the default mode the lines collected for the commit message are
\* the lines between the "Commit Message" heading and the first heading
\* line that follows it, a second "Commit Message" heading included: no
\* line after that heading line is collected.
C32_StopsAtNextHeading ==
    \A p \in Pulls :
        MessageReturned(p) /\ config.commit_message = "default" =>
            LET h == FirstLine(ctxt[p].body, MARKDOWN_COMMIT_MESSAGE_RE)
            IN  h # 0 =>
                  /\ Collected(p).found
                  /\ Collected(p).message_lines =
                        UpToHeading(After(ctxt[p].body, h))

=============================================================================
